---- MODULE Spec2Model ----
(***************************************************************************)
(* Model of src/benchmark_l0.py: Benchmark.benchmark and Benchmark.train.  *)
(*                                                                         *)
(* Floating-point values are abstracted to "num" / "nan".  The network is  *)
(* abstracted to the identity of its construction (init), the number of    *)
(* optimizer steps applied to it (steps) and whether its parameters are    *)
(* non-numeric (nan).  The wall clock is a logical clock that ticks once   *)
(* per executed training epoch.  The two epoch thresholds of the source    *)
(* (summary_step = 1000 and the literal 2000) are scaled down to           *)
(* SummaryStep and WarmupEpochs so that every epoch stays one step of the  *)
(* model.                                                                  *)
(***************************************************************************)
EXTENDS Integers, Sequences, FiniteSets, TLC

\* ---------------------------------------------------------------- bounds
MaxTrials == 2
\* NaN samples the environment produces in one run (a blow-up of the
\* weights needs a sample left in this budget to show)
MaxNaN == 1
MaxEpochs1 == 1
MaxEpochs2 == 1
MaxLayers == 2
MaxXDim == 1
\* scaled stand-in for self.summary_step = 1000
SummaryStep == 2
\* scaled stand-in for the literal 2000 of the first stage
WarmupEpochs == 4

VARIABLES
    n_layers, n_epochs1, n_epochs2, trials, x_dim,   \* hyper-parameters / arguments
    pc,                 \* control position in benchmark / train
    trial,              \* loop variable of "for trial in range(trials)"
    epoch,              \* loop variable of the running stage
    net,                \* the SymbolicNetL0 instance of the trial
    initial_weights,    \* the list passed to the constructor (shapes)
    optimizer,          \* [lr |-> <<num, den>>]: lr = num/den * learning_rate
    scheduler,          \* [last_epoch |-> k] of MultiplicativeLR
    loss_val,           \* last sampled combined loss: "num" or "nan"
    loss_list, error_list, reg_list, error_test_list,
    error_test_final, eq_list,
    t0, t1, clock,
    trial_files,        \* log of pickle.dump calls to trial%d.pickle
    eq_summary,         \* lines appended to eq_summary.txt
    error_expr_sorted, i,
    netInits,           \* history: number of network constructions so far
    attempt,            \* history: iterations of the restart loop in this trial
    trial_clock0,       \* history: the clock when the trial began
    stage               \* history: 0 outside stages, 1 / 2 inside

vars == <<n_layers, n_epochs1, n_epochs2, trials, x_dim, pc, trial, epoch, net,
          initial_weights, optimizer, scheduler, loss_val, loss_list, error_list,
          reg_list, error_test_list, error_test_final, eq_list, t0, t1, clock,
          trial_files, eq_summary, error_expr_sorted, i, netInits, attempt,
          trial_clock0, stage>>

config == <<n_layers, n_epochs1, n_epochs2, trials, x_dim>>

\* ------------------------------------------------------- pure helpers

\* self.activation_funcs: 2 Constant, 4 Identity, 4 Square, 2 Sin, 2 Exp,
\* 2 Sigmoid, 2 Product
activation_funcs ==
    <<"Constant", "Constant", "Identity", "Identity", "Identity", "Identity",
      "Square", "Square", "Square", "Square", "Sin", "Sin", "Exp", "Exp",
      "Sigmoid", "Sigmoid", "Product", "Product">>

width == Len(activation_funcs)

\* functions.count_double: number of catalogue entries of arity 2
count_double(funcs) == Cardinality({k \in 1..Len(funcs) : funcs[k] = "Product"})

n_double == count_double(activation_funcs)

\* the initial_weights list literal of train, as a list of shapes
InitialWeights(xd) ==
    << <<xd, width + n_double>>,
       <<width, width + n_double>>,
       <<width, width + n_double>>,
       <<width, 1>> >>

\* np.isnan
isnan(v) == v = "nan"

\* float addition / multiplication by the finite reg_weight on the abstraction
FAdd(a, b) == IF isnan(a) \/ isnan(b) THEN "nan" ELSE "num"

\* SymbolicNetL0(...): a fresh network built from the initial weights
NewNet(k) == [init |-> k, steps |-> 0, nan |-> FALSE]

\* optimizer.step(): one more update of the same parameters; parameters that
\* are non-numeric stay so, numeric ones may blow up
OptimizerStep(n, blow) == [n EXCEPT !.steps = @ + 1, !.nan = @ \/ blow]

\* optim.RMSprop(net.parameters(), lr=self.learning_rate * 10)
NewOptimizer == [lr |-> <<10, 1>>]

\* lmbda = lambda epoch: 0.1 * epoch, as a fraction
lmbda(e) == <<e, 10>>

\* MultiplicativeLR(optimizer, lr_lambda=lmbda): the constructor's initial
\* step leaves last_epoch = 0 and the learning rate unchanged
NewScheduler == [last_epoch |-> 0]

\* scheduler.step(): last_epoch += 1; lr *= lmbda(last_epoch)
SchedulerStepLr(lr, last) ==
    <<lr[1] * lmbda(last + 1)[1], lr[2] * lmbda(last + 1)[2]>>

\* a checkpoint test that also samples the last warmup epoch
IsCheckpointAlsoWarmupEnd(e) == e % SummaryStep = 0 \/ e = WarmupEpochs - 1

\* epoch % self.summary_step == 0
IsCheckpoint(e) == e % SummaryStep = 0

\* a first stage without the warmup epochs
Stage1EpochsNoWarmup == n_epochs1

\* range(self.n_epochs1 + 2000)
Stage1Epochs == n_epochs1 + WarmupEpochs

\* error_val, reg_val of a forward pass: the penalty is a function of the
\* parameters only, the fit error also of the data (fwdNaN: overflow in the
\* forward pass)
ErrorVal(n, fwdNaN) == IF n.nan \/ fwdNaN THEN "nan" ELSE "num"
RegVal(n) == IF n.nan THEN "nan" ELSE "num"

\* number of NaN samples taken so far in the run
NaNCount == Cardinality({k \in 1..Len(loss_list) : isnan(loss_list[k].val)})

\* one sampled value, tagged with where it was taken
Sample(v) == [val |-> v, trial |-> trial, attempt |-> attempt, stage |-> stage,
              epoch |-> epoch, at |-> clock]

\* pretty_print.network(weights, ...): the expression is read off the weights
Expr(w) == [of |-> w]

\* zip(a, b)
Min(a, b) == IF a < b THEN a ELSE b
Zip(a, b) == [k \in 1..Min(Len(a), Len(b)) |-> <<a[k], b[k]>>]

\* sorted(...) of a list of (error, expr) pairs, by insertion
RECURSIVE Insert(_, _)
Insert(p, s) ==
    IF s = <<>> THEN <<p>>
    ELSE IF p[1] <= Head(s)[1] THEN <<p>> \o s
    ELSE <<Head(s)>> \o Insert(p, Tail(s))
RECURSIVE Sorted(_)
Sorted(s) == IF s = <<>> THEN <<>> ELSE Insert(Head(s), Sorted(Tail(s)))

\* ----------------------------------------------------------------- Init

Init ==
    /\ n_layers \in 1..MaxLayers
    /\ n_epochs1 \in 0..MaxEpochs1
    /\ n_epochs2 \in 0..MaxEpochs2
    /\ trials \in 0..MaxTrials
    /\ x_dim \in 1..MaxXDim
    /\ pc = "benchmark"
    /\ trial = 0
    /\ epoch = 0
    /\ net = NewNet(0)
    /\ initial_weights = <<>>
    /\ optimizer = NewOptimizer
    /\ scheduler = NewScheduler
    /\ loss_val = "nan"
    /\ loss_list = <<>>
    /\ error_list = <<>>
    /\ reg_list = <<>>
    /\ error_test_list = <<>>
    /\ error_test_final = <<>>
    /\ eq_list = <<>>
    /\ t0 = 0
    /\ t1 = 0
    /\ clock = 0
    /\ trial_files = <<>>
    /\ eq_summary = <<>>
    /\ error_expr_sorted = <<>>
    /\ i = 0
    /\ netInits = 0
    /\ attempt = 0
    /\ trial_clock0 = 0
    /\ stage = 0

\* -------------------------------------------------------------- actions

\* benchmark calls train; train sets up its lists (lines 106, 123-141)
TrainEnter ==
    /\ pc = "benchmark"
    /\ pc' = "for_trial"
    /\ trial' = 0
    /\ loss_list' = <<>>
    /\ error_list' = <<>>
    /\ reg_list' = <<>>
    /\ error_test_list' = <<>>
    /\ error_test_final' = <<>>
    /\ eq_list' = <<>>
    /\ UNCHANGED <<config, epoch, net, initial_weights, optimizer, scheduler,
                   loss_val, t0, t1, clock, trial_files, eq_summary,
                   error_expr_sorted, i, netInits, attempt, stage,
                   trial_clock0>>

\* head of the trial loop up to the restart loop (lines 143-167)
TrialStart ==
    /\ pc = "for_trial"
    /\ trial < trials
    /\ initial_weights' = InitialWeights(x_dim)
    /\ netInits' = netInits + 1
    /\ net' = NewNet(netInits + 1)
    /\ optimizer' = NewOptimizer
    /\ scheduler' = NewScheduler
    /\ loss_val' = "nan"
    /\ attempt' = 0
    /\ trial_clock0' = clock
    /\ pc' = "while"
    /\ UNCHANGED <<config, trial, epoch, loss_list, error_list, reg_list,
                   error_test_list, error_test_final, eq_list, t0, t1, clock,
                   trial_files, eq_summary, error_expr_sorted, i, stage>>

\* a loop that tests its condition only before the first attempt
LoopConditionOnce == isnan(loss_val) /\ attempt = 0

\* the condition of "while np.isnan(loss_val)"
LoopCondition == isnan(loss_val)

\* while np.isnan(loss_val): t0 = time.time(); enter the first stage
AttemptStart ==
    /\ pc = "while"
    /\ LoopCondition
    /\ t0' = clock
    /\ attempt' = attempt + 1
    /\ epoch' = 0
    /\ stage' = 1
    /\ pc' = "stage1"
    /\ UNCHANGED <<config, trial, net, initial_weights, optimizer, scheduler,
                   loss_val, loss_list, error_list, reg_list, error_test_list,
                   error_test_final, eq_list, t1, clock, trial_files,
                   eq_summary, error_expr_sorted, i, netInits,
                   trial_clock0>>

\* one iteration of the first-stage loop (lines 173-209)
Stage1Epoch ==
    /\ pc = "stage1"
    /\ epoch < Stage1Epochs
    /\ \E fwdNaN \in BOOLEAN, blow \in BOOLEAN :
        LET error_val == ErrorVal(net, fwdNaN)
            reg_val == RegVal(net)
            sampled == FAdd(error_val, reg_val)
        IN  /\ blow => (~net.nan /\ NaNCount < MaxNaN)
            /\ net' = OptimizerStep(net, blow)
            /\ clock' = clock + 1
            /\ IF IsCheckpoint(epoch)
               THEN /\ isnan(sampled) => NaNCount < MaxNaN
                    /\ loss_val' = sampled
                    /\ error_list' = Append(error_list, Sample(error_val))
                    /\ reg_list' = Append(reg_list, Sample(reg_val))
                    /\ loss_list' = Append(loss_list, Sample(sampled))
               ELSE /\ ~fwdNaN
                    /\ UNCHANGED <<loss_val, error_list, reg_list, loss_list>>
            /\ IF IsCheckpoint(epoch) /\ isnan(sampled)
               THEN \* break: fall through to the second stage
                    /\ pc' = "stage2"
                    /\ stage' = 2
                    /\ epoch' = 0
                    /\ UNCHANGED <<optimizer, scheduler>>
               ELSE /\ IF epoch = WarmupEpochs
                       THEN /\ optimizer' = [optimizer EXCEPT
                                   !.lr = SchedulerStepLr(@, scheduler.last_epoch)]
                            /\ scheduler' = [scheduler EXCEPT !.last_epoch = @ + 1]
                       ELSE UNCHANGED <<optimizer, scheduler>>
                    /\ epoch' = epoch + 1
                    /\ UNCHANGED <<pc, stage>>
    /\ UNCHANGED <<config, trial, initial_weights, error_test_list,
                   error_test_final, eq_list, t0, t1, trial_files, eq_summary,
                   error_expr_sorted, i, netInits, attempt,
                   trial_clock0>>

\* the first-stage range is exhausted: go on to the second stage (line 222)
Stage1End ==
    /\ pc = "stage1"
    /\ epoch >= Stage1Epochs
    /\ pc' = "stage2"
    /\ stage' = 2
    /\ epoch' = 0
    /\ UNCHANGED <<config, trial, net, initial_weights, optimizer, scheduler,
                   loss_val, loss_list, error_list, reg_list, error_test_list,
                   error_test_final, eq_list, t0, t1, clock, trial_files,
                   eq_summary, error_expr_sorted, i, netInits, attempt,
                   trial_clock0>>

\* one iteration of the second-stage loop (lines 222-249); a NaN sample
\* breaks to t1 = time.time() and the test of the restart loop
Stage2Epoch ==
    /\ pc = "stage2"
    /\ epoch < n_epochs2
    /\ \E fwdNaN \in BOOLEAN, blow \in BOOLEAN :
        LET error_val == ErrorVal(net, fwdNaN)
            reg_val == RegVal(net)
            sampled == FAdd(error_val, reg_val)
        IN  /\ blow => (~net.nan /\ NaNCount < MaxNaN)
            /\ net' = OptimizerStep(net, blow)
            /\ clock' = clock + 1
            /\ IF IsCheckpoint(epoch)
               THEN /\ isnan(sampled) => NaNCount < MaxNaN
                    /\ loss_val' = sampled
                    /\ error_list' = Append(error_list, Sample(error_val))
                    /\ reg_list' = Append(reg_list, Sample(reg_val))
                    /\ loss_list' = Append(loss_list, Sample(sampled))
               ELSE /\ ~fwdNaN
                    /\ UNCHANGED <<loss_val, error_list, reg_list, loss_list>>
            /\ IF IsCheckpoint(epoch) /\ isnan(sampled)
               THEN /\ pc' = "while"
                    /\ stage' = 0
                    /\ t1' = clock + 1
                    /\ UNCHANGED epoch
               ELSE /\ epoch' = epoch + 1
                    /\ UNCHANGED <<pc, stage, t1>>
    /\ UNCHANGED <<config, trial, initial_weights, optimizer, scheduler,
                   error_test_list, error_test_final, eq_list, t0, trial_files,
                   eq_summary, error_expr_sorted, i, netInits, attempt,
                   trial_clock0>>

\* the second-stage range is exhausted: t1 = time.time() (line 251)
Stage2End ==
    /\ pc = "stage2"
    /\ epoch >= n_epochs2
    /\ t1' = clock
    /\ pc' = "while"
    /\ stage' = 0
    /\ UNCHANGED <<config, trial, epoch, net, initial_weights, optimizer,
                   scheduler, loss_val, loss_list, error_list, reg_list,
                   error_test_list, error_test_final, eq_list, t0, clock,
                   trial_files, eq_summary, error_expr_sorted, i, netInits,
                   attempt,
                   trial_clock0>>

\* the dictionary pickled for a trial (lines 253-272)
Results ==
    [weights |-> net,
     loss_list |-> loss_list,
     error_list |-> error_list,
     reg_list |-> reg_list,
     error_test |-> error_test_list,
     expr |-> Expr(net),
     runtime |-> t1 - t0]

\* the restart loop exits; extract, save and record the trial (lines 253-277)
SaveResults ==
    /\ pc = "while"
    /\ ~LoopCondition
    /\ trial_files' = Append(trial_files,
           [trial |-> trial, results |-> Results, attempt |-> attempt,
            started |-> trial_clock0, saved |-> clock,
            sched |-> scheduler.last_epoch, lr |-> optimizer.lr])
    /\ eq_list' = Append(eq_list, Expr(net))
    /\ trial' = trial + 1
    /\ pc' = "for_trial"
    /\ UNCHANGED <<config, epoch, net, initial_weights, optimizer, scheduler,
                   loss_val, loss_list, error_list, reg_list, error_test_list,
                   error_test_final, t0, t1, clock, eq_summary,
                   error_expr_sorted, i, netInits, attempt, stage,
                   trial_clock0>>

\* return eq_list, error_test_final; benchmark sorts the pairs (lines 279, 106-115)
TrainReturn ==
    /\ pc = "for_trial"
    /\ trial >= trials
    /\ error_expr_sorted' = Sorted(Zip(error_test_final, eq_list))
    /\ i' = 0
    /\ pc' = "write"
    /\ UNCHANGED <<config, trial, epoch, net, initial_weights, optimizer,
                   scheduler, loss_val, loss_list, error_list, reg_list,
                   error_test_list, error_test_final, eq_list, t0, t1, clock,
                   trial_files, eq_summary, netInits, attempt, stage,
                   trial_clock0>>

\* one iteration of "for i in range(trials)": indexing past the end of the
\* sorted list raises IndexError (lines 116-117)
WriteLine ==
    /\ pc = "write"
    /\ i < trials
    /\ IF i < Len(error_expr_sorted)
       THEN /\ eq_summary' = Append(eq_summary, error_expr_sorted[i + 1])
            /\ i' = i + 1
            /\ pc' = pc
       ELSE /\ pc' = "IndexError"
            /\ UNCHANGED <<eq_summary, i>>
    /\ UNCHANGED <<config, trial, epoch, net, initial_weights, optimizer,
                   scheduler, loss_val, loss_list, error_list, reg_list,
                   error_test_list, error_test_final, eq_list, t0, t1, clock,
                   trial_files, error_expr_sorted, netInits, attempt, stage,
                   trial_clock0>>

\* fi.close() (line 118)
BenchmarkDone ==
    /\ pc = "write"
    /\ i >= trials
    /\ pc' = "done"
    /\ UNCHANGED <<config, trial, epoch, net, initial_weights, optimizer,
                   scheduler, loss_val, loss_list, error_list, reg_list,
                   error_test_list, error_test_final, eq_list, t0, t1, clock,
                   trial_files, eq_summary, error_expr_sorted, i, netInits,
                   attempt, stage,
                   trial_clock0>>

Next ==
    \/ TrainEnter
    \/ TrialStart
    \/ AttemptStart
    \/ Stage1Epoch
    \/ Stage1End
    \/ Stage2Epoch
    \/ Stage2End
    \/ SaveResults
    \/ TrainReturn
    \/ WriteLine
    \/ BenchmarkDone

Spec == Init /\ [][Next]_vars

\* ------------------------------------------------------ shared notions

Last(s) == s[Len(s)]

\* an attempt of the restart loop is running
InAttempt == pc \in {"stage1", "stage2"}

\* the next step executes a training epoch (the logical clock ticks)
EpochExecutes == clock' = clock + 1

\* a checkpoint of the running attempt has sampled a NaN combined loss
NaNSampledInAttempt ==
    /\ InAttempt
    /\ loss_list # <<>>
    /\ Last(loss_list).trial = trial
    /\ Last(loss_list).attempt = attempt
    /\ isnan(Last(loss_list).val)

\* equality of two learning rates given as fractions
LrEq(a, b) == a[1] * b[2] = b[1] * a[2]

BaseLr == <<10, 1>>
DecayedLr == <<1, 1>>

\* the three time-series of a saved result, as one set of samples
SavedSamples(f) ==
    {f.results.loss_list[k] : k \in 1..Len(f.results.loss_list)}
    \cup {f.results.error_list[k] : k \in 1..Len(f.results.error_list)}
    \cup {f.results.reg_list[k] : k \in 1..Len(f.results.reg_list)}

SavedFiles == {trial_files[k] : k \in 1..Len(trial_files)}

\* ----------------------------------------------------------------- C1
\* C1: whenever an attempt is started after an abandoned one, its epoch 0
\* starts from a freshly initialized network: no optimizer step of an
\* earlier attempt, and no NaN, is left in its weights.
C1_RestartStartsFresh ==
    (pc = "stage1" /\ epoch = 0 /\ attempt >= 2)
        => (net.steps = 0 /\ ~net.nan)

\* ----------------------------------------------------------------- C2
\* C2: once a checkpoint of an attempt has sampled a NaN combined loss, no
\* further epoch of that attempt is executed (the next epoch is epoch 0 of
\* stage 1 of a new attempt).
C2_NoEpochAfterNaN == [][NaNSampledInAttempt => ~EpochExecutes]_vars

\* ----------------------------------------------------------------- C3
\* C3: over a whole trial, counting every attempt, the learning rate is
\* reduced exactly once, by the factor 0.1 from 10*learning_rate to
\* learning_rate: the scheduler never steps twice in a trial, the rate is
\* never anything but the base or the decayed one, and every trial is saved
\* with exactly one reduction behind it.
C3_DecayOnceByTenth ==
    /\ scheduler.last_epoch <= 1
    /\ LrEq(optimizer.lr, BaseLr) \/ LrEq(optimizer.lr, DecayedLr)
    /\ \A f \in SavedFiles : f.sched = 1 /\ LrEq(f.lr, DecayedLr)

\* ----------------------------------------------------------------- C4
\* C4: for n_epochs1 >= 1, a stage-2 epoch is executed only after stage 1
\* of the same attempt has run all its n_epochs1 + 2000 epochs and the
\* decay has taken place, and never at the un-decayed warmup learning rate.
C4_FineTuneAfterFullStage1 ==
    [][(pc = "stage2" /\ EpochExecutes /\ n_epochs1 >= 1)
         => /\ clock - t0 - epoch = Stage1Epochs
            /\ scheduler.last_epoch >= 1
            /\ ~LrEq(optimizer.lr, BaseLr)]_vars

\* ----------------------------------------------------------------- C5
\* C5: trials run strictly one at a time.  The k-th result written is that of
\* trial k, written exactly once, holding the network built for trial k,
\* with a last sampled combined loss that is a non-NaN sample of trial k and
\* no sample of a later trial; while trial k trains, exactly the results of
\* the trials before it are written; the returned expression list has one
\* entry per trial, in trial order.
C5_TrialsOneAtATime ==
    /\ pc # "benchmark" => Len(trial_files) = trial /\ Len(eq_list) = trial
    /\ \A k \in 1..Len(trial_files) :
          LET f == trial_files[k] IN
          /\ f.trial = k - 1
          /\ f.results.weights.init = k
          /\ f.results.loss_list # <<>>
          /\ Last(f.results.loss_list).trial = f.trial
          /\ ~isnan(Last(f.results.loss_list).val)
          /\ \A smp \in SavedSamples(f) : smp.trial <= f.trial /\ smp.at < f.saved
          /\ k > 1 => trial_files[k - 1].saved <= f.started
    /\ InAttempt => net.init = trial + 1
    /\ pc \in {"write", "done", "IndexError"} =>
          /\ Len(eq_list) = trials
          /\ \A k \in 1..Len(eq_list) : eq_list[k] = trial_files[k].results.expr

\* C5 witness: two trials were saved, the second after a restart
C5_Witness ==
    /\ pc = "write"
    /\ Len(trial_files) = 2
    /\ trial_files[2].attempt = 2

\* ----------------------------------------------------------------- C6
\* C6: the time-series saved for trial k contain only samples taken at
\* checkpoints of trial k.
C6_SeriesOfOwnTrialOnly ==
    \A f \in SavedFiles : \A smp \in SavedSamples(f) : smp.trial = f.trial

\* ----------------------------------------------------------------- C7
\* C7: for trials >= 1, benchmark completes without error, train returns as
\* many test errors as expressions, and exactly `trials` lines are written.
C7_BenchmarkCompletes ==
    trials >= 1 =>
        /\ pc # "IndexError"
        /\ pc \in {"write", "done"} => Len(error_test_final) = Len(eq_list)
        /\ pc = "done" => Len(eq_summary) = trials

\* ----------------------------------------------------------------- C8
\* C8: the time-series saved for a trial contain no NaN sample and no sample
\* taken during an attempt other than the one the trial ended with.
C8_NoDivergenceInSavedSeries ==
    \A f \in SavedFiles : \A smp \in SavedSamples(f) :
        /\ ~isnan(smp.val)
        /\ smp.trial = f.trial => smp.attempt = f.attempt

\* ----------------------------------------------------------------- C9
\* C9: the runtime recorded for a trial is the time from the start of its
\* first attempt to the end of its last attempt on the logical clock, so
\* the epochs of abandoned attempts are included.
C9_RuntimeIsTotalElapsed ==
    \A f \in SavedFiles : f.results.runtime = f.saved - f.started

\* ---------------------------------------------------------------- C10
\* C10: the list of initial weight matrices passed to the constructor has
\* n_layers + 1 matrices: the first (x_dim, width + n_double), the other
\* hidden ones (width, width + n_double), the final one (width, 1).
C10_OneMatrixPerLayer ==
    initial_weights # <<>> =>
        /\ Len(initial_weights) = n_layers + 1
        /\ initial_weights[1] = <<x_dim, width + n_double>>
        /\ \A k \in 2..(Len(initial_weights) - 1) :
              initial_weights[k] = <<width, width + n_double>>
        /\ Last(initial_weights) = <<width, 1>>

\* ---------------------------------------------------------------- C11
\* the NaN samples of trial t taken so far
TrialNaNs(t) ==
    {k \in 1..Len(loss_list) : loss_list[k].trial = t /\ isnan(loss_list[k].val)}

\* C11: for n_epochs1, n_epochs2 >= 0, a trial in which no sampled combined
\* loss is NaN ends after exactly one attempt, with exactly n_epochs1 + 2000
\* optimizer steps of stage 1 followed by exactly n_epochs2 of stage 2; every
\* restart is preceded by a NaN sample of the attempt before it.
C11_CleanTrialRunsOnce ==
    /\ (pc \in {"while", "stage1", "stage2"} /\ TrialNaNs(trial) = {}) =>
          /\ attempt <= 1
          /\ pc = "stage2" =>
                /\ clock - t0 - epoch = n_epochs1 + WarmupEpochs
                /\ net.steps = n_epochs1 + WarmupEpochs + epoch
                /\ epoch <= n_epochs2
          /\ (pc = "while" /\ attempt = 1) =>
                /\ ~LoopCondition
                /\ net.steps = n_epochs1 + WarmupEpochs + n_epochs2
    /\ \A f \in SavedFiles :
          (\A k \in 1..Len(f.results.loss_list) :
              f.results.loss_list[k].trial = f.trial
                  => ~isnan(f.results.loss_list[k].val))
          => /\ f.attempt = 1
             /\ f.results.weights.steps = n_epochs1 + WarmupEpochs + n_epochs2
             /\ f.saved - f.started = n_epochs1 + WarmupEpochs + n_epochs2
    /\ pc \in {"while", "stage1", "stage2"} =>
          \A a \in 1..(attempt - 1) :
              \E k \in TrialNaNs(trial) : loss_list[k].attempt = a

\* C11 witness: a trial without any NaN sample was saved, both stages non-empty
C11_Witness ==
    /\ n_epochs1 >= 1
    /\ n_epochs2 >= 1
    /\ \E f \in SavedFiles :
          /\ \A smp \in SavedSamples(f) : ~isnan(smp.val)
          /\ f.attempt = 1

\* ---------------------------------------------------------------- C12
\* consecutive samples of one attempt: positions k, k + 1 of the series
SameAttempt(a, b) == a.trial = b.trial /\ a.attempt = b.attempt

\* every two consecutive samples of one attempt that P relates are exactly
\* SummaryStep executed epochs apart
EvenlySpaced(list, P(_, _)) ==
    \A k \in 1..(Len(list) - 1) :
        (SameAttempt(list[k], list[k + 1]) /\ P(list[k], list[k + 1]))
            => list[k + 1].at - list[k].at = SummaryStep

AnyPair(a, b) == TRUE
SameStage(a, b) == a.stage = b.stage

C13_RestartAtBaseRate ==
    /\ (pc = "stage1" /\ epoch = 0) =>
          optimizer = NewOptimizer /\ scheduler = NewScheduler
    /\ (pc = "stage1" /\ epoch <= WarmupEpochs) => LrEq(optimizer.lr, BaseLr)

\* ---------------------------------------------------------------- C14
\* C14, in runs where no checkpoint has sampled NaN: no trial's result is
\* saved while the network's weights are NaN (non-numeric weights make every
\* later sample NaN; any optimizer step may make the weights non-numeric).
C14_SavedWeightsNumeric ==
    NaNCount = 0 =>
        \A f \in SavedFiles : ~f.results.weights.nan /\ ~f.results.expr.of.nan

====
